---- MODULE Spec2Model ----
(***************************************************************************)
(* Model of asm1x-art/stat-visualizer.                                     *)
(*                                                                         *)
(* src/src/utils/indexedDB.ts  IndexedDBManager: the persistent store, two *)
(*   object stores ("metadata" with the out-of-line keys "current" and     *)
(*   "hash", "chunks" keyed by the keyPath chunkId).                       *)
(* src/src/App.tsx:1-643       the viewer that ingests an upload through   *)
(*   the store (loadAllData).                                              *)
(* src/src/App.tsx:645-1300    the viewer that reads chunk files on demand *)
(*   and merges the resident chunks of a range (getDataForRange).          *)
(*                                                                         *)
(* The store runs the transactions of overlapping scope in the order they  *)
(* were created: transactions lists the pending ones, oldest first.        *)
(*                                                                         *)
(* Spec        the ingesting viewer, MaxSelections selections made at any  *)
(*             moment and drawn from IngestUploads, MaxLarge of them of    *)
(*             the dataset of more than one batch.                         *)
(* SpecOverlap the same viewer with selections drawn from OverlapUploads.  *)
(* SpecRepeat  the same viewer, MaxIngests selections of small uploads.    *)
(* SpecStorage the ingesting viewer and the store when openDB may fail.    *)
(* SpecStore   the store driven by arbitrary calls of its interface.       *)
(* SpecInit    interface calls followed through their implicit init.       *)
(* SpecRange   the range merge over a resident chunk map.                  *)
(* SpecReader  the viewer that reads chunk files on demand.                *)
(***************************************************************************)
EXTENDS Integers, Sequences, FiniteSets, TLC

VARIABLES
  db,              \* IndexedDBManager.db: "null" or "open"
  dbMetadata,      \* object store "metadata": key -> value
  dbChunks,        \* object store "chunks": set of {chunkId, data} records
  metadata,        \* useState metadata
  loadedChunks,    \* useState loadedChunks: Map chunkId -> chunk
  loading,         \* useState loading
  progress,        \* useState progress
  error,           \* useState error
  loadingStatus,   \* useState loadingStatus
  pc,              \* per loadAllData call: the await it is suspended at
  files,           \* per call: the FileList it was given
  meta,            \* per call: const meta
  metadataHash,    \* per call: const metadataHash
  cachedMetadata,  \* per call: const cachedMetadata
  cachedHash,      \* per call: const cachedHash
  idx,             \* per call: the loop variable i
  task,            \* per call: state of each promise of batchPromises
  allChunks,       \* per call: const allChunks (a Map)
  path,            \* per call: which branch of line 156 was taken
  did,             \* per call: kinds of store / file operations issued so far
  transactions,    \* the store transactions created and not finished, oldest first
  viewRange,       \* useState viewRange (second viewer)
  mergedData,      \* result of the last getDataForRange call
  chunkFiles,      \* useState chunkFiles (second viewer): the indexed selection
  loadingChunks,   \* useState loadingChunks (second viewer)
  captured,        \* the loadedChunks map seen by handleRelayout's closure
  call,            \* second viewer, per handler call: its closure and position
  fetch,           \* second viewer, per handler call: its chunkPromises
  lastLoad,        \* the loadChunksForRange call that last began or settled
  handled,         \* second viewer: number of handler calls so far
  lastCall,        \* SpecStore: the last interface call and what it returned
  available,       \* whether openDB can open the database in this session
  storeCalls       \* SpecInit: per interface call, its operation and position

storeVars  == <<db, dbMetadata, dbChunks>>
uiVars     == <<metadata, loadedChunks, loading, progress, error, loadingStatus>>
ingestVars == <<pc, files, meta, metadataHash, cachedMetadata, cachedHash,
                idx, task, allChunks, path, did, transactions>>
readerVars == <<viewRange, mergedData, chunkFiles, loadingChunks, captured, call,
                fetch, lastLoad, handled>>
sessionVars == <<available, storeCalls>>
vars       == <<storeVars, uiVars, ingestVars, readerVars, lastCall, sessionVars>>

----------------------------------------------------------------------------
(* Bounds and program constants *)

BATCH_SIZE == 5

MaxIngests == 3

ExtraChunks == 1

ChunkLen == 3

NULL == "null"

Ingests == 1..MaxIngests

MaxSelections == 2

\* the selections of the specifications that take every upload
Selections == 1..MaxSelections

Min(a, b) == IF a < b THEN a ELSE b

Max(a, b) == IF a > b THEN a ELSE b

Minimum(S) == CHOOSE x \in S : \A y \in S : x <= y

----------------------------------------------------------------------------
(* Datasets: the descriptor a metadata file parses to (IMetadata) *)

DatasetNames == {"A", "B", "Z"}

\* meta.chunks.length
ChunksLength(m) ==
  CASE m = "A" -> BATCH_SIZE + ExtraChunks
    [] m = "B" -> 2
    [] OTHER   -> 0

\* meta.chunkSize
ChunkSize(m) == ChunkLen

\* meta.totalPoints: the last window is one point short
TotalPoints(m) == IF ChunksLength(m) = 0 THEN 0 ELSE ChunksLength(m) * ChunkLen - 1

ChunkIds == 0..(ChunksLength("A") - 1)

\* IChunkData parsed from the chunk file of chunk id of dataset ds
ChunkData(ds, id) == [ds |-> ds, id |-> id]

NoChunk == [ds |-> NULL, id |-> -1]

EmptyMap == [k \in {} |-> NoChunk]

\* getDataForRange returning null
NoData == [s \in {} |-> << >>]

MapSet(m, k, v) == [x \in (DOMAIN m) \cup {k} |-> IF x = k THEN v ELSE m[x]]

----------------------------------------------------------------------------
(* Uploads: the FileList given to handleFileChange *)

\* metadataFile: the text of the *.chunked.visualize.json file (a dataset name,
\* "bad" for text that is no JSON), NULL when no such file is selected.
\* missing / malformed: chunk ids whose file is not selected / is no JSON.
Upload(m, miss, bad) == [metadataFile |-> m, missing |-> miss, malformed |-> bad]

Uploads ==
  { Upload("A", {}, {}),
    Upload("A", {BATCH_SIZE}, {}),
    Upload("B", {}, {}),
    Upload("B", {0}, {}),
    Upload("B", {}, {0}),
    Upload("Z", {}, {}),
    Upload("bad", {}, {}),
    Upload(NULL, {}, {}) }

\* the selections of Spec: every upload but the one that fails in its second batch
IngestUploads == Uploads \ {Upload("A", {BATCH_SIZE}, {})}

NoFiles == Upload(NULL, {}, {})

\* every selection is taken to hold a metadata file
HasMetadataFileAlways(u) == TRUE

\* lines 127-142: a selected file name ends with .chunked.visualize.json
HasMetadataFile(u) == u.metadataFile # NULL

\* lines 201-216: the file of a chunk, by name or by the chunk_<id>.json token
FindFile(u, id) == IF id \in u.missing THEN "missing" ELSE "found"

\* line 219: JSON.parse of the chunk file's text
ParseChunk(u, id) == IF id \in u.malformed THEN NoChunk ELSE ChunkData(u.metadataFile, id)

\* lines 114-119: SHA-256 of the metadata file's bytes, as hex
calculateFileHash(text) == "sha256:" \o text

\* 2^e
RECURSIVE Pow2(_)
Pow2(e) == IF e <= 0 THEN 1 ELSE 2 * Pow2(e - 1)

\* 2^k modulo d
RECURSIVE Pow2Mod(_, _)
Pow2Mod(k, d) == IF k = 0 THEN 1 % d ELSE (2 * Pow2Mod(k - 1, d)) % d

\* floor(log2(v)) for v >= 1
RECURSIVE Log2(_)
Log2(v) == IF v < 2 THEN 0 ELSE 1 + Log2(v \div 2)

\* the least j with n * 2^j >= d: the double n / d has exponent -j
RECURSIVE ScaleOf(_, _)
ScaleOf(n, d) == IF n >= d THEN 0 ELSE 1 + ScaleOf(2 * n, d)

\* Math.round((n / d) * 100) for 0 <= n <= d, in IEEE 754 double arithmetic.
\* The two roundings (of n / d to 53 bits, of the product by 100) move the
\* value by far less than 1 / (2 * d), so the result is the nearest integer of
\* 100 * n / d unless that quotient is exactly x + 1/2. Then n / d is rounded
\* down by r / (d * 2^(52 + j)), r being n * 2^(52 + j) modulo d, or up when
\* 2 * r > d; the product lies 100 * r / (d * 2^e) units in the last place
\* below x + 1/2, with e the difference of the two exponents, and the double
\* product is below x + 1/2 when that is more than half a unit: Math.round
\* then gives x and not x + 1 (23 / 40 gives 57, 145 / 1000 gives 14).
RoundPercent(n, d) ==
  LET nearest == (200 * n + d) \div (2 * d)
      half    == n > 0 /\ (200 * n) % d = 0 /\ ((200 * n) \div d) % 2 = 1
      x       == (100 * n) \div d
      j       == ScaleOf(n, d)
      r       == ((n % d) * Pow2Mod(52 + j, d)) % d
      e       == Log2(2 * x + 1) - 1 + j
  IN  IF half /\ 2 * r < d /\ 200 * r > d * Pow2(e) THEN x ELSE nearest

----------------------------------------------------------------------------
(* Errors shown to the user *)

NoError == [kind |-> NULL, chunk |-> -1]

MissingMetadataFile == [kind |-> "MissingMetadataFile", chunk |-> -1]

MalformedJSON == [kind |-> "MalformedJSON", chunk |-> -1]

\* line 110: the mount effect's message when init rejects
InitError == [kind |-> "InitError", chunk |-> -1]

\* lines 247-248: the catch block's message when a store operation rejects
DatabaseError == [kind |-> "DatabaseError", chunk |-> -1]

\* the message without the chunk id
MissingChunkFileUnnamed(id) == [kind |-> "MissingChunkFile", chunk |-> -1]

\* lines 214-216
MissingChunkFile(id) == [kind |-> "MissingChunkFile", chunk |-> id]

----------------------------------------------------------------------------
(* IndexedDBManager: the effect of each operation on the object stores *)

EmptyStore == [k \in {} |-> NULL]

StorePut(store, key, value) ==
  [k \in (DOMAIN store) \cup {key} |-> IF k = key THEN value ELSE store[k]]

StoreGet(store, key) == IF key \in DOMAIN store THEN store[key] ELSE NULL

\* the operation is issued without a look at this.db
NeedsInitNever(d) == FALSE

\* lines 55, 69, 75, 81, 88, 95, 101, 108, 115: if (!this.db) await this.init()
NeedsInit(d) == d = NULL

\* the object store is created anew on every open
upgradeRecreate(store, fresh) == fresh

\* lines 39-50: an object store is created only when the database has none of
\* that name; one that exists is left as it is
upgrade(store, fresh) == store

clearAllMetadata(store) == EmptyStore

\* the chunk store is left out of the transaction
clearAllChunksKeep(chunks) == chunks

clearAllChunks(chunks) == {}

saveMetadata(store, m) == StorePut(store, "current", m)

\* the hash is put under the key of the descriptor
saveMetadataHashCurrent(store, hash) == StorePut(store, "current", hash)

saveMetadataHash(store, hash) == StorePut(store, "hash", hash)

getMetadata(store) == StoreGet(store, "current")

getMetadataHash(store) == StoreGet(store, "hash")

\* a store without the keyPath: put appends
saveChunkAppend(chunks, chunkId, chunkData) ==
  chunks \cup {[chunkId |-> chunkId, data |-> chunkData]}

saveChunk(chunks, chunkId, chunkData) ==
  {r \in chunks : r.chunkId # chunkId} \cup {[chunkId |-> chunkId, data |-> chunkData]}

getChunk(chunks, chunkId) ==
  IF \E r \in chunks : r.chunkId = chunkId
    THEN (CHOOSE r \in chunks : r.chunkId = chunkId).data
    ELSE NoChunk

hasChunk(chunks, chunkId) == Cardinality({r \in chunks : r.chunkId = chunkId}) > 0

getCachedChunksCount(chunks) == Cardinality(chunks)

----------------------------------------------------------------------------
(* loadAllData (src/src/App.tsx:121-252), one call per p \in Ingests *)

TaskStates == {"none", "reading", "writing", "done", "rejected"}

NoTasks == [k \in ChunkIds |-> "none"]

InFlight(p) == {k \in ChunkIds : task[p][k] \in {"reading", "writing"}}

\* line 156
IsCacheHit(hash, cHash, cMeta) == cHash = hash /\ cMeta # NULL

\* the loop goes straight to saving the descriptor
FirstMissStepNoClear == "saveMetadata"

\* lines 182-183: the first await of the cache-miss branch
FirstMissStep == "clearAll"

\* lines 197-198: the chunk ids of the batch that starts at i
BatchIds(m, i) == {k \in ChunkIds : i <= k /\ k < Min(i + BATCH_SIZE, ChunksLength(m))}

\* the loop goes on as soon as one promise of the batch resolves
BatchSettledAny(t, ids) == \E k \in ids : t[k] = "done"

\* line 225: Promise.all(batchPromises) resolves
BatchSettled(t, ids) == \A k \in ids : t[k] = "done"

\* indexedDB.ts:54-98: the operations that open a readwrite transaction
WriteOps == {"clearAll", "saveMetadata", "saveMetadataHash", "saveChunk"}

\* indexedDB.ts:57-117: the object stores in the scope of an operation's transaction
Scope(op) ==
  IF op = "clearAll" THEN {"metadata", "chunks"}
  ELSE IF op \in {"getMetadata", "getMetadataHash", "saveMetadata", "saveMetadataHash"}
         THEN {"metadata"}
         ELSE {"chunks"}

\* the awaits of loadAllData's own line that are store operations
StoreSteps == {"getMetadata", "getMetadataHash", "hitGetChunk", "clearAll",
               "saveMetadata", "saveMetadataHash", "missGetChunk"}

\* the transaction of call p: that of its own line of awaits (k = -1) or that of
\* the batch callback of chunk k
Transaction(p, k, op) == [call |-> p, chunk |-> k, op |-> op]

\* transactions never wait for each other
ConflictNever(a, b) == FALSE

\* two transactions are ordered when their scopes overlap and one of them is
\* readwrite
Conflict(a, b) ==
  /\ Scope(a.op) \cap Scope(b.op) # {}
  /\ (a.op \in WriteOps \/ b.op \in WriteOps)

\* idb opens the transaction of an operation at the call (indexedDB.ts:57, 71,
\* 77, 83, 90, 97, 103), and a transaction runs once every transaction created
\* before it that it is ordered with has finished
MayRun(p, k) ==
  \E i \in 1..Len(transactions) :
    /\ transactions[i].call = p /\ transactions[i].chunk = k
    /\ \A j \in 1..(i - 1) : ~Conflict(transactions[j], transactions[i])

\* the transaction of call p for k has finished
Finish(s, p, k) == SelectSeq(s, LAMBDA t : ~(t.call = p /\ t.chunk = k))

\* the step has brought call p's own line to a store operation, whose
\* transaction is created in the same turn
Issued(s, p) ==
  IF pc'[p] \in StoreSteps /\ \A i \in 1..Len(s) : ~(s[i].call = p /\ s[i].chunk = -1)
    THEN Append(s, Transaction(p, -1, pc'[p]))
    ELSE s

\* lines 247-251: the catch block
Catch(p, err) ==
  /\ pc' = [pc EXCEPT ![p] = "failed"]
  /\ error' = err
  /\ loading' = FALSE
  /\ loadingStatus' = ""

\* lines 196-225: batch.map runs every callback up to its first await; a callback
\* that finds no file has thrown by then, and Promise.all rejects with the first
\* of these before any read completes.
BeginBatch(p, i, base, ops, status) ==
  LET ids     == BatchIds(meta[p], i)
      missing == {k \in ids : FindFile(files[p], k) = "missing"}
      started == [k \in ChunkIds |->
                    IF k \in ids
                      THEN (IF k \in missing THEN "rejected" ELSE "reading")
                      ELSE base[k]]
  IN  /\ task' = [task EXCEPT ![p] = started]
      /\ idx' = [idx EXCEPT ![p] = i]
      /\ did' = [did EXCEPT ![p] =
                   ops \cup (IF ids \ missing # {} THEN {"readChunkFile"} ELSE {})]
      /\ IF missing # {}
           THEN Catch(p, MissingChunkFile(Minimum(missing)))
           ELSE /\ pc' = [pc EXCEPT ![p] = "batch"]
                /\ error' = error
                /\ loading' = loading
                /\ loadingStatus' = status

\* A call that returned before the previous one and has no chunk task left
\* can no longer act: its locals are forgotten when call p starts.
Dropped(q, p) ==
  q < p - 1 /\ pc[q] \in {"done", "failed", "returned"} /\ InFlight(q) = {}

Forget(f, p, init) == [q \in Ingests |-> IF Dropped(q, p) THEN init ELSE f[q]]

\* lines 452-456 and 121-147: handleFileChange, loadAllData up to its first await
loadAllData(p, u) ==
  /\ pc[p] = "idle"
  /\ \A q \in Ingests : q < p => pc[q] # "idle"
  /\ files' = [Forget(files, p, NoFiles) EXCEPT ![p] = u]
  /\ progress' = 0
  /\ IF ~HasMetadataFile(u)
       THEN /\ pc' = [Forget(pc, p, "returned") EXCEPT ![p] = "failed"]
            /\ error' = MissingMetadataFile
            /\ loading' = FALSE
            /\ loadingStatus' = ""
       ELSE /\ pc' = [Forget(pc, p, "returned") EXCEPT ![p] = "readMetadata"]
            /\ loading' = TRUE
            /\ error' = NoError
            /\ loadingStatus' = "ReadingMetadata"
  /\ meta' = Forget(meta, p, NULL)
  /\ metadataHash' = Forget(metadataHash, p, NULL)
  /\ cachedMetadata' = Forget(cachedMetadata, p, NULL)
  /\ cachedHash' = Forget(cachedHash, p, NULL)
  /\ idx' = Forget(idx, p, 0)
  /\ task' = Forget(task, p, NoTasks)
  /\ allChunks' = Forget(allChunks, p, EmptyMap)
  /\ path' = Forget(path, p, "none")
  /\ did' = Forget(did, p, {})
  /\ UNCHANGED <<storeVars, metadata, loadedChunks, readerVars, lastCall, sessionVars>>
  /\ UNCHANGED transactions

\* lines 452-456, 486-491: the file input is never disabled and handleFileChange
\* calls loadAllData whatever is in flight
Start(p, u) == loadAllData(p, u)

\* lines 147-148: metadataFile.text() resolves, JSON.parse
ReadMetadata(p) ==
  /\ pc[p] = "readMetadata"
  /\ IF files[p].metadataFile \notin DatasetNames
       THEN /\ Catch(p, MalformedJSON)
            /\ meta' = meta
       ELSE /\ meta' = [meta EXCEPT ![p] = files[p].metadataFile]
            /\ pc' = [pc EXCEPT ![p] = "calculateFileHash"]
            /\ UNCHANGED <<error, loading, loadingStatus>>
  /\ UNCHANGED <<storeVars, metadata, loadedChunks, progress, files, metadataHash,
                 cachedMetadata, cachedHash, idx, task, allChunks, path, did,
                 readerVars, lastCall, sessionVars>>
  /\ UNCHANGED transactions

\* line 150: calculateFileHash resolves; getMetadata is called (line 151) and
\* runs up to its first await: that of init when there is no connection
\* (indexedDB.ts:81), that of the get otherwise
HashMetadata(p) ==
  /\ pc[p] = "calculateFileHash"
  /\ metadataHash' = [metadataHash EXCEPT ![p] = calculateFileHash(files[p].metadataFile)]
  /\ pc' = [pc EXCEPT ![p] = IF NeedsInit(db) THEN "getMetadataInit" ELSE "getMetadata"]
  /\ UNCHANGED <<storeVars, uiVars, files, meta, cachedMetadata, cachedHash,
                 idx, task, allChunks, path, did, readerVars, lastCall, sessionVars>>
  /\ transactions' = Issued(transactions, p)

\* lines 156-180 (hit, up to the first getChunk) and 182-183 (miss, up to clearAll)
Decide(p, cMeta, cHash) ==
  IF IsCacheHit(metadataHash[p], cHash, cMeta)
    THEN /\ path' = [path EXCEPT ![p] = "hit"]
         /\ metadata' = cMeta
         /\ allChunks' = [allChunks EXCEPT ![p] = EmptyMap]
         /\ idx' = [idx EXCEPT ![p] = 0]
         /\ IF ChunksLength(cMeta) = 0
              THEN /\ loadedChunks' = EmptyMap
                   /\ progress' = 100
                   /\ loading' = FALSE
                   /\ loadingStatus' = "LoadingIntoMemory"
                   /\ pc' = [pc EXCEPT ![p] = "done"]
              ELSE /\ loadingStatus' = "LoadingIntoMemory"
                   /\ pc' = [pc EXCEPT ![p] = "hitGetChunk"]
                   /\ UNCHANGED <<loadedChunks, progress, loading>>
    ELSE /\ path' = [path EXCEPT ![p] = "miss"]
         /\ loadingStatus' = "Clearing"
         /\ pc' = [pc EXCEPT ![p] = FirstMissStep]
         /\ UNCHANGED <<metadata, allChunks, idx, loadedChunks, progress, loading>>

\* indexedDB.ts:81, 37-52: openDB of the init that getMetadata awaits settles;
\* it sets this.db and getMetadata goes on to its get, or it rejects and
\* loadAllData catches
GetMetadataInit(p) ==
  /\ pc[p] = "getMetadataInit"
  /\ IF available
       THEN /\ db' = "open"
            /\ pc' = [pc EXCEPT ![p] = "getMetadata"]
            /\ UNCHANGED <<error, loading, loadingStatus>>
       ELSE /\ Catch(p, DatabaseError)
            /\ db' = db
  /\ UNCHANGED <<dbMetadata, dbChunks, metadata, loadedChunks, progress, files, meta,
                 metadataHash, cachedMetadata, cachedHash, idx, task, allChunks, path,
                 did, readerVars, lastCall, sessionVars>>
  /\ transactions' = Issued(transactions, p)

\* lines 151-154, indexedDB.ts:83-84: the get of getMetadata resolves
GetMetadata(p) ==
  /\ pc[p] = "getMetadata"
  /\ MayRun(p, -1)
  /\ LET cMeta == getMetadata(dbMetadata)
     IN  /\ cachedMetadata' = [cachedMetadata EXCEPT ![p] = cMeta]
         /\ IF cMeta # NULL
              THEN /\ pc' = [pc EXCEPT ![p] = "getMetadataHash"]
                   /\ UNCHANGED <<cachedHash, path, metadata, allChunks, idx,
                                  loadedChunks, progress, loading, loadingStatus>>
              ELSE /\ cachedHash' = [cachedHash EXCEPT ![p] = NULL]
                   /\ Decide(p, cMeta, NULL)
  /\ UNCHANGED <<storeVars, error, files, meta, metadataHash, task, did,
                 readerVars, lastCall, sessionVars>>
  /\ transactions' = Issued(Finish(transactions, p, -1), p)

\* line 153: getMetadataHash resolves
GetMetadataHash(p) ==
  /\ pc[p] = "getMetadataHash"
  /\ MayRun(p, -1)
  /\ db' = db
  /\ LET cHash == getMetadataHash(dbMetadata)
     IN  /\ cachedHash' = [cachedHash EXCEPT ![p] = cHash]
         /\ Decide(p, cachedMetadata[p], cHash)
  /\ UNCHANGED <<dbMetadata, dbChunks, error, files, meta, metadataHash,
                 cachedMetadata, task, did, readerVars, lastCall, sessionVars>>
  /\ transactions' = Issued(Finish(transactions, p, -1), p)

\* lines 166-179: one getChunk(i) of the cache-hit loop resolves
HitGetChunk(p) ==
  /\ pc[p] = "hitGetChunk"
  /\ MayRun(p, -1)
  /\ db' = db
  /\ LET i     == idx[p]
         n     == ChunksLength(cachedMetadata[p])
         chunk == getChunk(dbChunks, i)
         all   == IF chunk # NoChunk THEN MapSet(allChunks[p], i, chunk) ELSE allChunks[p]
     IN  /\ allChunks' = [allChunks EXCEPT ![p] = all]
         /\ idx' = [idx EXCEPT ![p] = i + 1]
         /\ IF i + 1 < n
              THEN /\ progress' = IF i % 10 = 0 THEN RoundPercent(i, n) ELSE progress
                   /\ UNCHANGED <<pc, loadedChunks, loading>>
              ELSE /\ loadedChunks' = all
                   /\ progress' = 100
                   /\ loading' = FALSE
                   /\ pc' = [pc EXCEPT ![p] = "done"]
  /\ UNCHANGED <<dbMetadata, dbChunks, metadata, error, loadingStatus, files, meta,
                 metadataHash, cachedMetadata, cachedHash, task, path, did,
                 readerVars, lastCall, sessionVars>>
  /\ transactions' = Issued(Finish(transactions, p, -1), p)

\* line 183: clearAll resolves
ClearAll(p) ==
  /\ pc[p] = "clearAll"
  /\ MayRun(p, -1)
  /\ db' = db
  /\ dbMetadata' = clearAllMetadata(dbMetadata)
  /\ dbChunks' = clearAllChunks(dbChunks)
  /\ did' = [did EXCEPT ![p] = @ \cup {"clearAll"}]
  /\ pc' = [pc EXCEPT ![p] = "saveMetadata"]
  /\ UNCHANGED <<uiVars, files, meta, metadataHash, cachedMetadata, cachedHash,
                 idx, task, allChunks, path, readerVars, lastCall, sessionVars>>
  /\ transactions' = Issued(Finish(transactions, p, -1), p)

\* line 185: saveMetadata resolves
SaveMetadata(p) ==
  /\ pc[p] = "saveMetadata"
  /\ MayRun(p, -1)
  /\ db' = db
  /\ dbMetadata' = saveMetadata(dbMetadata, meta[p])
  /\ did' = [did EXCEPT ![p] = @ \cup {"saveMetadata"}]
  /\ pc' = [pc EXCEPT ![p] = "saveMetadataHash"]
  /\ UNCHANGED <<dbChunks, uiVars, files, meta, metadataHash, cachedMetadata,
                 cachedHash, idx, task, allChunks, path, readerVars, lastCall, sessionVars>>
  /\ transactions' = Issued(Finish(transactions, p, -1), p)

\* lines 232-246 when the dataset has no chunk: both loops are skipped
FinishEmpty(p) ==
  /\ loadedChunks' = EmptyMap
  /\ allChunks' = [allChunks EXCEPT ![p] = EmptyMap]
  /\ loadingStatus' = "Done"
  /\ pc' = [pc EXCEPT ![p] = "timer"]

\* lines 186-225: saveMetadataHash resolves, setMetadata, the first batch starts
SaveMetadataHash(p) ==
  /\ pc[p] = "saveMetadataHash"
  /\ MayRun(p, -1)
  /\ db' = db
  /\ dbMetadata' = saveMetadataHash(dbMetadata, metadataHash[p])
  /\ metadata' = meta[p]
  /\ IF ChunksLength(meta[p]) = 0
       THEN /\ FinishEmpty(p)
            /\ did' = [did EXCEPT ![p] = @ \cup {"saveMetadataHash"}]
            /\ UNCHANGED <<idx, task, error, loading>>
       ELSE /\ BeginBatch(p, 0, task[p], did[p] \cup {"saveMetadataHash"}, loadingStatus)
            /\ UNCHANGED <<loadedChunks, allChunks>>
  /\ UNCHANGED <<dbChunks, progress, files, meta, metadataHash, cachedMetadata,
                 cachedHash, path, readerVars, lastCall, sessionVars>>
  /\ transactions' = Issued(Finish(transactions, p, -1), p)

\* lines 218-220: file.text() of one chunk resolves, JSON.parse, saveChunk is issued
ChunkRead(p, k) ==
  /\ task[p][k] = "reading"
  /\ IF ParseChunk(files[p], k) = NoChunk
       THEN /\ task' = [task EXCEPT ![p][k] = "rejected"]
            /\ did' = did
            /\ IF pc[p] = "batch"
                 THEN Catch(p, MalformedJSON)
                 ELSE UNCHANGED <<pc, error, loading, loadingStatus>>
       ELSE /\ task' = [task EXCEPT ![p][k] = "writing"]
            /\ did' = [did EXCEPT ![p] = @ \cup {"saveChunk"}]
            /\ UNCHANGED <<pc, error, loading, loadingStatus>>
  /\ UNCHANGED <<storeVars, metadata, loadedChunks, progress, files, meta,
                 metadataHash, cachedMetadata, cachedHash, idx, allChunks, path,
                 readerVars, lastCall, sessionVars>>
  /\ transactions' = IF task'[p][k] = "writing"
                       THEN Append(transactions, Transaction(p, k, "saveChunk"))
                       ELSE transactions

\* lines 220-232: saveChunk of one chunk resolves; when it is the last of its
\* batch, Promise.all resolves and the loop goes on
ChunkWrite(p, k) ==
  /\ task[p][k] = "writing"
  /\ MayRun(p, k)
  /\ db' = db
  /\ dbChunks' = saveChunk(dbChunks, k, ParseChunk(files[p], k))
  /\ LET t        == [task[p] EXCEPT ![k] = "done"]
         total    == ChunksLength(meta[p])
         batchEnd == Min(idx[p] + BATCH_SIZE, total)
     IN  IF pc[p] = "batch" /\ BatchSettled(t, BatchIds(meta[p], idx[p]))
           THEN /\ progress' = RoundPercent(batchEnd, total)
                /\ IF batchEnd < total
                     THEN /\ BeginBatch(p, batchEnd, t, did[p], "Caching")
                          /\ allChunks' = allChunks
                     ELSE /\ task' = [task EXCEPT ![p] = t]
                          /\ did' = did
                          /\ idx' = [idx EXCEPT ![p] = 0]
                          /\ allChunks' = [allChunks EXCEPT ![p] = EmptyMap]
                          /\ loadingStatus' = "LoadingIntoMemory"
                          /\ pc' = [pc EXCEPT ![p] = "missGetChunk"]
                          /\ UNCHANGED <<error, loading>>
           ELSE /\ task' = [task EXCEPT ![p] = t]
                /\ UNCHANGED <<progress, did, idx, allChunks, loadingStatus, pc,
                               error, loading>>
  /\ UNCHANGED <<dbMetadata, metadata, loadedChunks, files, meta, metadataHash,
                 cachedMetadata, cachedHash, path, readerVars, lastCall, sessionVars>>
  /\ transactions' = Issued(Finish(transactions, p, k), p)

\* lines 234-246: one getChunk(i) of the final loop resolves
MissGetChunk(p) ==
  /\ pc[p] = "missGetChunk"
  /\ MayRun(p, -1)
  /\ db' = db
  /\ LET i     == idx[p]
         chunk == getChunk(dbChunks, i)
         all   == IF chunk # NoChunk THEN MapSet(allChunks[p], i, chunk) ELSE allChunks[p]
     IN  /\ allChunks' = [allChunks EXCEPT ![p] = all]
         /\ idx' = [idx EXCEPT ![p] = i + 1]
         /\ IF i + 1 < ChunksLength(meta[p])
              THEN UNCHANGED <<pc, loadedChunks, loadingStatus>>
              ELSE /\ loadedChunks' = all
                   /\ loadingStatus' = "Done"
                   /\ pc' = [pc EXCEPT ![p] = "timer"]
  /\ UNCHANGED <<dbMetadata, dbChunks, metadata, loading, progress, error, files,
                 meta, metadataHash, cachedMetadata, cachedHash, task, path, did,
                 readerVars, lastCall, sessionVars>>
  /\ transactions' = Issued(Finish(transactions, p, -1), p)

\* lines 243-246: the 500 ms timer fires
Timer(p) ==
  /\ pc[p] = "timer"
  /\ loading' = FALSE
  /\ loadingStatus' = ""
  /\ pc' = [pc EXCEPT ![p] = "done"]
  /\ UNCHANGED <<storeVars, metadata, loadedChunks, progress, error, files, meta,
                 metadataHash, cachedMetadata, cachedHash, idx, task, allChunks,
                 path, did, readerVars, lastCall, sessionVars>>
  /\ UNCHANGED transactions

\* lines 107-112: the mount effect's dbManager.init() resolves
InitDb ==
  /\ db = NULL
  /\ storeCalls[1].stage = "none"
  /\ IF available
       THEN /\ db' = "open"
            /\ UNCHANGED <<error, storeCalls>>
       ELSE /\ error' = InitError
            /\ storeCalls' = [storeCalls EXCEPT ![1] =
                 [op |-> "init", stage |-> "failed", init |-> TRUE, value |-> NULL]]
            /\ db' = db
  /\ UNCHANGED <<dbMetadata, dbChunks, metadata, loadedChunks, loading, progress,
                 loadingStatus, ingestVars, readerVars, lastCall, available>>

MaxHandled == 2

\* the handler calls of the second viewer, in the order they are made
Handlers == 1..MaxHandled

\* a handler call that has not been made, or has returned
NoReaderCall ==
  [kind |-> "none", stage |-> "none", files |-> NoFiles, meta |-> NULL,
   loaded |-> EmptyMap, start |-> 0, end |-> 0, range |-> <<0, 0>>,
   before |-> {}, ids |-> {}, arrival |-> << >>]

NoReaderCalls == [h \in Handlers |-> NoReaderCall]

NoFetches == [h \in Handlers |-> NoTasks]

\* loadChunksForRange not called yet
NoLoad == [start |-> 0, end |-> 0, meta |-> NULL, files |-> NoFiles, before |-> {},
           chunksToLoad |-> {}, arrival |-> << >>, outcome |-> "none"]

NoCall == [op |-> "none", chunkId |-> -1, data |-> NoChunk, value |-> NULL,
           hadChunk |-> FALSE, countBefore |-> 0, slotsBefore |-> {},
           dataBefore |-> NoChunk]

MaxStoreCalls == 2

StoreCallers == 1..MaxStoreCalls

\* no interface call under way
NoStoreCalls ==
  [c \in StoreCallers |-> [op |-> "none", stage |-> "none", init |-> FALSE, value |-> NULL]]

\* A fresh origin: nothing persisted, the component just constructed
Init ==
  /\ db = NULL
  /\ dbMetadata = EmptyStore
  /\ dbChunks = {}
  /\ metadata = NULL
  /\ loadedChunks = EmptyMap
  /\ loading = FALSE
  /\ progress = 0
  /\ error = NoError
  /\ loadingStatus = ""
  /\ pc = [p \in Ingests |-> "idle"]
  /\ files = [p \in Ingests |-> NoFiles]
  /\ meta = [p \in Ingests |-> NULL]
  /\ metadataHash = [p \in Ingests |-> NULL]
  /\ cachedMetadata = [p \in Ingests |-> NULL]
  /\ cachedHash = [p \in Ingests |-> NULL]
  /\ idx = [p \in Ingests |-> 0]
  /\ task = [p \in Ingests |-> NoTasks]
  /\ allChunks = [p \in Ingests |-> EmptyMap]
  /\ path = [p \in Ingests |-> "none"]
  /\ did = [p \in Ingests |-> {}]
  /\ transactions = << >>
  /\ viewRange = <<0, 10000>>
  /\ mergedData = NoData
  /\ chunkFiles = NoFiles
  /\ loadingChunks = FALSE
  /\ captured = EmptyMap
  /\ call = NoReaderCalls
  /\ fetch = NoFetches
  /\ lastLoad = NoLoad
  /\ handled = 0
  /\ lastCall = NoCall
  /\ available = TRUE
  /\ storeCalls = NoStoreCalls

MaxLarge == 1

\* the calls made before call p, selecting u, that took the dataset of more than
\* one batch as u does; none when u is of another dataset
LargeBefore(p, u) ==
  IF u.metadataFile = "A"
    THEN Cardinality({q \in 1..(p - 1) : files[q].metadataFile = "A"})
    ELSE 0

\* every step of the first viewer but the selection of files
IngestSteps ==
  \/ InitDb
  \/ \E p \in Ingests : ReadMetadata(p)
  \/ \E p \in Ingests : HashMetadata(p)
  \/ \E p \in Ingests : GetMetadataInit(p)
  \/ \E p \in Ingests : GetMetadata(p)
  \/ \E p \in Ingests : GetMetadataHash(p)
  \/ \E p \in Ingests : HitGetChunk(p)
  \/ \E p \in Ingests : ClearAll(p)
  \/ \E p \in Ingests : SaveMetadata(p)
  \/ \E p \in Ingests : SaveMetadataHash(p)
  \/ \E p \in Ingests, k \in ChunkIds : ChunkRead(p, k)
  \/ \E p \in Ingests, k \in ChunkIds : ChunkWrite(p, k)
  \/ \E p \in Ingests : MissGetChunk(p)
  \/ \E p \in Ingests : Timer(p)

\* lines 452-456: a selection is ingested whatever was selected before; a session
\* is followed through MaxSelections selections, MaxLarge of them of the dataset
\* of more than one batch
Next ==
  \/ \E p \in Selections, u \in IngestUploads :
       LargeBefore(p, u) < MaxLarge /\ Start(p, u)
  \/ IngestSteps

Spec == Init /\ [][Next]_vars

----------------------------------------------------------------------------
(* SpecStore: IndexedDBManager called directly (src/src/utils/indexedDB.ts) *)

MaxStoreId == 2

StoreIds == 0..MaxStoreId

StoreData == {ChunkData(ds, 0) : ds \in {"A", "B"}}

StoreMetas == {"A", "B"}

StoreHashes == {calculateFileHash(m) : m \in StoreMetas}

Call(op, id, data, value) ==
  [op |-> op, chunkId |-> id, data |-> data, value |-> value,
   hadChunk |-> hasChunk(dbChunks, id), countBefore |-> getCachedChunksCount(dbChunks),
   slotsBefore |-> DOMAIN dbMetadata, dataBefore |-> getChunk(dbChunks, id)]

Untouched == <<uiVars, ingestVars, readerVars, available>>

\* a connection is open, or the call's own init can open one
Ready == ~NeedsInit(db) \/ available

\* what the caller gets when the call's init rejects
Rejected == "rejected"

\* lines 54-118 with no connection and openDB rejecting: the await of init throws
CallFails(op) ==
  /\ ~Ready
  /\ lastCall' = [Call(op, -1, NoChunk, NULL) EXCEPT !.value = Rejected]
  /\ UNCHANGED <<storeVars, Untouched, storeCalls>>

\* lines 37-52: init() is called and its openDB resolves
CallInit ==
  /\ Ready
  /\ db' = "open"
  /\ dbMetadata' = upgrade(dbMetadata, EmptyStore)
  /\ dbChunks' = upgrade(dbChunks, {})
  /\ lastCall' = Call("init", -1, NoChunk, NULL)
  /\ UNCHANGED <<Untouched, storeCalls>>

MaxWaiting == 1

\* the callers whose operation may find no connection
Waiters == 1..MaxWaiting

\* an operation that found no connection and waits for its own init, or for its
\* request after that; which operation it is shows at the request
Waiting(stage) == [op |-> "operation", stage |-> stage, init |-> TRUE, value |-> NULL]

\* the first line of every operation but init, if (!this.db) await this.init(),
\* with this.db null: the call starts openDB and waits for it
CallAwaitsInit(c) ==
  /\ NeedsInit(db)
  /\ available
  /\ storeCalls[c].stage = "none"
  /\ storeCalls' = [storeCalls EXCEPT ![c] = Waiting("openDB")]
  /\ UNCHANGED <<storeVars, Untouched, lastCall>>

\* lines 37-52: openDB of the call's init resolves and sets this.db; the call
\* goes on to its request, which settles in a later step
CallOpened(c) ==
  /\ storeCalls[c] = Waiting("openDB")
  /\ db' = "open"
  /\ dbMetadata' = upgrade(dbMetadata, EmptyStore)
  /\ dbChunks' = upgrade(dbChunks, {})
  /\ storeCalls' = [storeCalls EXCEPT ![c] = Waiting("request")]
  /\ UNCHANGED <<Untouched, lastCall>>

\* the request of an operation settles: the operation was called with a
\* connection open (its only wait), or it waited for its init before
Requested ==
  /\ ~NeedsInit(db)
  /\ \/ UNCHANGED storeCalls
     \/ \E c \in Waiters :
          /\ storeCalls[c] = Waiting("request")
          /\ storeCalls' = [storeCalls EXCEPT ![c] = NoStoreCalls[c]]
  /\ UNCHANGED db

\* lines 54-66
CallClearAll ==
  /\ Requested
  /\ dbMetadata' = clearAllMetadata(dbMetadata)
  /\ dbChunks' = clearAllChunks(dbChunks)
  /\ lastCall' = Call("clearAll", -1, NoChunk, NULL)
  /\ UNCHANGED Untouched

\* lines 68-72
CallSaveMetadata(m) ==
  /\ Requested
  /\ dbMetadata' = saveMetadata(dbMetadata, m)
  /\ lastCall' = Call("saveMetadata", -1, NoChunk, m)
  /\ UNCHANGED <<dbChunks, Untouched>>

\* lines 74-78
CallSaveMetadataHash(h) ==
  /\ Requested
  /\ dbMetadata' = saveMetadataHash(dbMetadata, h)
  /\ lastCall' = Call("saveMetadataHash", -1, NoChunk, h)
  /\ UNCHANGED <<dbChunks, Untouched>>

\* lines 80-85
CallGetMetadata ==
  /\ Requested
  /\ lastCall' = Call("getMetadata", -1, NoChunk, getMetadata(dbMetadata))
  /\ UNCHANGED <<dbMetadata, dbChunks, Untouched>>

\* lines 87-92
CallGetMetadataHash ==
  /\ Requested
  /\ lastCall' = Call("getMetadataHash", -1, NoChunk, getMetadataHash(dbMetadata))
  /\ UNCHANGED <<dbMetadata, dbChunks, Untouched>>

\* lines 94-98
CallSaveChunk(id, data) ==
  /\ Requested
  /\ dbChunks' = saveChunk(dbChunks, id, data)
  /\ lastCall' = Call("saveChunk", id, data, NULL)
  /\ UNCHANGED <<dbMetadata, Untouched>>

\* lines 100-105
CallGetChunk(id) ==
  /\ Requested
  /\ lastCall' = Call("getChunk", id, getChunk(dbChunks, id), NULL)
  /\ UNCHANGED <<dbMetadata, dbChunks, Untouched>>

\* lines 107-112
CallHasChunk(id) ==
  /\ Requested
  /\ lastCall' = Call("hasChunk", id, NoChunk, NULL)
  /\ UNCHANGED <<dbMetadata, dbChunks, Untouched>>

\* lines 114-118
CallGetCachedChunksCount ==
  /\ Requested
  /\ lastCall' = Call("getCachedChunksCount", -1, NoChunk, NULL)
  /\ UNCHANGED <<dbMetadata, dbChunks, Untouched>>

NextStore ==
  \/ CallInit
  \/ \E c \in Waiters : CallAwaitsInit(c)
  \/ \E c \in Waiters : CallOpened(c)
  \/ CallClearAll
  \/ \E m \in StoreMetas : CallSaveMetadata(m)
  \/ \E h \in StoreHashes : CallSaveMetadataHash(h)
  \/ CallGetMetadata
  \/ CallGetMetadataHash
  \/ \E id \in StoreIds, data \in StoreData : CallSaveChunk(id, data)
  \/ \E id \in StoreIds : CallGetChunk(id)
  \/ \E id \in StoreIds : CallHasChunk(id)
  \/ CallGetCachedChunksCount

SpecStore == Init /\ [][NextStore]_vars

----------------------------------------------------------------------------
(* SpecRange: getDataForRange (src/src/App.tsx:878-931) *)

\* metadata.coins
Coins(m) == IF m = "A" THEN {"DOT", "LINK"} ELSE {"DOT"}

Fields == {"movingAverages", "normalizedPrices", "cumulativeMeans"}

AvgMaSpread == [coin |-> "", field |-> "avgMaSpread"]

\* the arrays of a merged IChunkData: three per coin, and avgMaSpread
SeriesOf(m) == {[coin |-> c, field |-> f] : c \in Coins(m), f \in Fields} \cup {AvgMaSpread}

\* the dataset's value of series s at index g
Value(ds, s, g) == <<ds, s.coin, s.field, g>>

\* number of points the chunk file of chunk id holds
ChunkPoints(ds, id) == Max(0, Min(ChunkSize(ds), TotalPoints(ds) - id * ChunkSize(ds)))

\* line 908: chunk[coin] is an object for the coins the chunk file holds and
\* undefined for any other coin
HoldsCoin(chunk, coin) == coin \in Coins(chunk.ds)

\* chunk[coin][field], chunk.avgMaSpread: the array the chunk file holds for
\* series s; no array for a coin the chunk file does not hold
ChunkArray(chunk, s) ==
  IF s = AvgMaSpread \/ HoldsCoin(chunk, s.coin)
    THEN [j \in 1..ChunkPoints(chunk.ds, chunk.id) |->
            Value(chunk.ds, s, chunk.id * ChunkSize(chunk.ds) + j - 1)]
    ELSE << >>

\* line 912 reading coinData.movingAverages of undefined: the TypeError that
\* ends getDataForRange without a result (the render fails)
TypeError == [s \in {[coin |-> "undefined", field |-> "movingAverages"]} |-> << >>]

\* Array.prototype.slice(from, to)
Slice(arr, from, to) ==
  LET len == Len(arr)
      lo  == IF from < 0 THEN Max(len + from, 0) ELSE Min(from, len)
      hi  == IF to < 0 THEN Max(len + to, 0) ELSE Min(to, len)
  IN  IF hi <= lo THEN << >> ELSE SubSeq(arr, lo + 1, hi)

\* the local start without its lower clamp
LocalStartUnclamped(start, chunkStart) == start - chunkStart

\* line 904
LocalStart(start, chunkStart) == Max(0, start - chunkStart)

\* line 905
LocalEnd(chunkSize, end, chunkStart) == Min(chunkSize, end - chunkStart)

\* a chunk that is not resident is filled in with placeholders
SkippedChunkPadded(localStart, localEnd) ==
  [i \in 1..(localEnd - localStart) |-> <<NULL, "", "", -1>>]

\* line 900: if (!chunk) continue
SkippedChunk(localStart, localEnd) == << >>

\* lines 898-926: the slices of chunks chunkId..endChunkId of one series, appended
RECURSIVE MergeFrom(_, _, _, _, _, _, _)
MergeFrom(chunks, chunkSize, s, start, end, chunkId, endChunkId) ==
  IF chunkId > endChunkId
    THEN << >>
    ELSE LET chunkStart == chunkId * chunkSize
             localStart == LocalStart(start, chunkStart)
             localEnd   == LocalEnd(chunkSize, end, chunkStart)
             part == IF chunkId \in DOMAIN chunks
                       THEN Slice(ChunkArray(chunks[chunkId], s), localStart, localEnd)
                       ELSE SkippedChunk(localStart, localEnd)
         IN  part \o MergeFrom(chunks, chunkSize, s, start, end, chunkId + 1, endChunkId)

\* lines 898-912: a resident chunk of the range that lacks a coin of the
\* descriptor; the chunks are visited whatever localStart and localEnd are
Throws(m, chunks, startChunkId, endChunkId) ==
  \E chunkId \in startChunkId..endChunkId :
    /\ chunkId \in DOMAIN chunks
    /\ \E coin \in Coins(m) : ~HoldsCoin(chunks[chunkId], coin)

\* lines 878-931
getDataForRange(m, chunks, start, end) ==
  IF m = NULL
    THEN NoData
    ELSE LET chunkSize    == ChunkSize(m)
             startChunkId == start \div chunkSize
             endChunkId   == end \div chunkSize
         IN  IF Throws(m, chunks, startChunkId, endChunkId)
               THEN TypeError
               ELSE [s \in SeriesOf(m) |->
                       MergeFrom(chunks, chunkSize, s, start, end, startChunkId, endChunkId)]

RangeSlack == 2

RangeInputs == (0 - RangeSlack)..(ChunksLength("A") * ChunkLen + RangeSlack)

\* The component holds a descriptor, any part of its chunks and a view range;
\* nothing is rendered yet
InitRange ==
  /\ db = NULL
  /\ dbMetadata = EmptyStore
  /\ dbChunks = {}
  /\ metadata \in DatasetNames
  /\ \E S \in SUBSET {k \in ChunkIds : k < ChunksLength(metadata)} :
       loadedChunks = [k \in S |-> ChunkData(metadata, k)]
  /\ loading = FALSE
  /\ progress = 0
  /\ error = NoError
  /\ loadingStatus = ""
  /\ pc = [p \in Ingests |-> "idle"]
  /\ files = [p \in Ingests |-> NoFiles]
  /\ meta = [p \in Ingests |-> NULL]
  /\ metadataHash = [p \in Ingests |-> NULL]
  /\ cachedMetadata = [p \in Ingests |-> NULL]
  /\ cachedHash = [p \in Ingests |-> NULL]
  /\ idx = [p \in Ingests |-> 0]
  /\ task = [p \in Ingests |-> NoTasks]
  /\ allChunks = [p \in Ingests |-> EmptyMap]
  /\ path = [p \in Ingests |-> "none"]
  /\ did = [p \in Ingests |-> {}]
  /\ transactions = << >>
  /\ viewRange \in RangeInputs \X RangeInputs
  /\ mergedData = NoData
  /\ chunkFiles = NoFiles
  /\ loadingChunks = FALSE
  /\ captured = EmptyMap
  /\ call = NoReaderCalls
  /\ fetch = NoFetches
  /\ lastLoad = NoLoad
  /\ handled = 0
  /\ lastCall = NoCall
  /\ available = TRUE
  /\ storeCalls = NoStoreCalls

\* lines 933-937: the render computes getDataForRange(viewRange[0], viewRange[1])
Render ==
  /\ mergedData = NoData
  /\ mergedData' = getDataForRange(metadata, loadedChunks, viewRange[1], viewRange[2])
  /\ UNCHANGED <<storeVars, uiVars, ingestVars, viewRange, chunkFiles, loadingChunks,
                 captured, call, fetch, lastLoad, handled, lastCall, sessionVars>>

NextRange == Render

SpecRange == InitRange /\ [][NextRange]_vars

----------------------------------------------------------------------------
(* SpecReader: the second viewer (src/src/App.tsx:699-1035), which keeps the
   selected files and reads chunk files on demand *)

MaxSpan == 2

\* lines 832-838: files.get(fileName), by exact name only
GetFile(u, id) == IF id \in u.missing THEN "missing" ELSE "found"

\* lines 815, 883: Math.floor(end / chunkSize)
EndChunkId(end, chunkSize) == end \div chunkSize

\* lines 814-822: the callers pass start >= 0, so every id pushed is a chunk id
ChunksToLoad(start, end, m, loaded) ==
  {i \in ChunkIds : /\ start \div ChunkSize(m) <= i
                    /\ i <= EndChunkId(end, ChunkSize(m))
                    /\ i \notin DOMAIN loaded
                    /\ i < ChunksLength(m)}

ChunkFileNotFound(id) == [kind |-> "ChunkFileNotFound", chunk |-> id]

ChunkMalformed == [kind |-> "ChunkMalformed", chunk |-> -1]

MetadataParseError == [kind |-> "MetadataParseError", chunk |-> -1]

\* position of id among ids, from 1
Rank(id, ids) == Cardinality({j \in ids : j < id}) + 1

\* each id is given the data of the read that completed at its position
PromoteByArrival(prev, u, ids, order) ==
  [k \in (DOMAIN prev) \cup ids |->
     IF k \in ids THEN ParseChunk(u, order[Rank(k, ids)]) ELSE prev[k]]

\* lines 858-866: Promise.all keeps each result with its chunkId; newMap.set
Promote(prev, u, ids, order) ==
  [k \in (DOMAIN prev) \cup ids |-> IF k \in ids THEN ParseChunk(u, k) ELSE prev[k]]

\* the loadChunksForRange call of handler call c, as it stands
LoadOf(c, outcome) ==
  [start |-> c.start, end |-> c.end, meta |-> c.meta, files |-> c.files,
   before |-> c.before, chunksToLoad |-> c.ids, arrival |-> c.arrival,
   outcome |-> outcome]

\* loadChunksForRange returns to its caller: lines 863-875 (flag is what the
\* finally block leaves in loadingChunks), then 784-787 (loadMetadata) or 1010
\* (handleRelayout)
Settle(h, c, chunks, err, loaded, outcome, flag) ==
  /\ loadedChunks' = chunks
  /\ error' = IF err = NoError THEN error ELSE err
  /\ loadingChunks' = flag
  /\ fetch' = [fetch EXCEPT ![h] = NoTasks]
  /\ lastLoad' = LoadOf(c, outcome)
  /\ viewRange' = c.range
  /\ IF c.kind = "load"
       THEN /\ progress' = 100
            /\ call' = [call EXCEPT ![h] =
                          [NoReaderCall EXCEPT !.kind = "load", !.stage = "timer"]]
       ELSE /\ progress' = IF loaded THEN 100 ELSE progress
            /\ call' = [call EXCEPT ![h] = NoReaderCall]

\* lines 806-857: loadChunksForRange up to await Promise.all; line 825 returns
\* before setLoadingChunks; a callback that finds no file has thrown by then and
\* Promise.all rejects with the first
LoadChunksForRange(h, c0) ==
  LET toLoad  == ChunksToLoad(c0.start, c0.end, c0.meta, c0.loaded)
      missing == {k \in toLoad : GetFile(c0.files, k) = "missing"}
      c       == [c0 EXCEPT !.before = DOMAIN loadedChunks, !.ids = toLoad]
  IN  IF toLoad = {}
        THEN Settle(h, c, loadedChunks, NoError, FALSE, "nothing", loadingChunks)
        ELSE IF missing # {}
          THEN Settle(h, c, loadedChunks, ChunkFileNotFound(Minimum(missing)), FALSE,
                      "failed", FALSE)
          ELSE /\ fetch' = [fetch EXCEPT ![h] =
                              [k \in ChunkIds |-> IF k \in toLoad THEN "reading" ELSE "none"]]
               /\ loadingChunks' = TRUE
               /\ call' = [call EXCEPT ![h] = [c EXCEPT !.stage = "fetch"]]
               /\ lastLoad' = LoadOf(c, "pending")
               /\ UNCHANGED <<loadedChunks, error, progress, viewRange>>

\* lines 1016-1035, 733-737, 798: handleFileChange, loadMetadata up to
\* readAsText, whatever earlier handler calls are waiting for; MaxHandled
\* handler calls in all
SelectFiles(u) ==
  /\ handled < MaxHandled
  /\ handled' = handled + 1
  /\ IF ~HasMetadataFile(u)
       THEN /\ error' = MissingMetadataFile
            /\ UNCHANGED <<loading, progress, call>>
       ELSE /\ loading' = TRUE
            /\ progress' = 0
            /\ error' = NoError
            /\ call' = [call EXCEPT ![handled + 1] =
                          [NoReaderCall EXCEPT !.kind = "load", !.stage = "readAsText",
                                               !.files = u, !.loaded = loadedChunks]]
  /\ UNCHANGED <<storeVars, metadata, loadedChunks, loadingStatus, ingestVars,
                 viewRange, mergedData, chunkFiles, loadingChunks, captured, fetch,
                 lastLoad, lastCall, sessionVars>>

\* lines 741-793: reader.onload of the metadata file of handler call h
OnLoadMetadata(h) ==
  /\ call[h].stage = "readAsText"
  /\ IF call[h].files.metadataFile \notin DatasetNames
       THEN /\ error' = MetadataParseError
            /\ loading' = FALSE
            /\ call' = [call EXCEPT ![h] = NoReaderCall]
            /\ UNCHANGED <<metadata, loadedChunks, progress, viewRange, chunkFiles,
                           loadingChunks, captured, fetch, lastLoad>>
       ELSE LET m    == call[h].files.metadataFile
                last == Min(ChunkSize(m), TotalPoints(m))
            IN  /\ metadata' = m
                /\ chunkFiles' = call[h].files
                /\ captured' = loadedChunks
                /\ loading' = loading
                /\ LoadChunksForRange(h, [call[h] EXCEPT !.meta = m, !.end = last,
                                                         !.range = <<0, last>>])
  /\ UNCHANGED <<storeVars, loadingStatus, ingestVars, mergedData, handled, lastCall, sessionVars>>

\* lines 842-875: reader.onload of one chunk file of handler call h; with the
\* last one Promise.all resolves and the results are merged into loadedChunks
ChunkLoaded(h, k) ==
  /\ call[h].stage = "fetch"
  /\ fetch[h][k] = "reading"
  /\ IF k \in call[h].files.malformed
       THEN Settle(h, call[h], loadedChunks, ChunkMalformed, FALSE, "failed", FALSE)
       ELSE LET f   == [fetch[h] EXCEPT ![k] = "done"]
                arr == Append(call[h].arrival, k)
                ids == call[h].ids
            IN  IF \A j \in ids : f[j] = "done"
                  THEN Settle(h, [call[h] EXCEPT !.arrival = arr],
                              Promote(loadedChunks, call[h].files, ids, arr),
                              NoError, TRUE, "loaded", FALSE)
                  ELSE /\ fetch' = [fetch EXCEPT ![h] = f]
                       /\ call' = [call EXCEPT ![h].arrival = arr]
                       /\ UNCHANGED <<loadedChunks, error, progress, viewRange,
                                      loadingChunks, lastLoad>>
  /\ UNCHANGED <<storeVars, metadata, loading, loadingStatus, ingestVars, mergedData,
                 chunkFiles, captured, handled, lastCall, sessionVars>>

\* line 787: the 300 ms timer of handler call h fires
LoadTimer(h) ==
  /\ call[h].stage = "timer"
  /\ loading' = FALSE
  /\ call' = [call EXCEPT ![h] = NoReaderCall]
  /\ UNCHANGED <<storeVars, metadata, loadedChunks, progress, error, loadingStatus,
                 ingestVars, viewRange, mergedData, chunkFiles, loadingChunks,
                 captured, fetch, lastLoad, handled, lastCall, sessionVars>>

\* lines 991-1014: handleRelayout with integer axis ends x0, x1, whatever
\* earlier handler calls are waiting for; MaxHandled handler calls in all
HandleRelayout(x0, x1) ==
  /\ handled < MaxHandled
  /\ handled' = handled + 1
  /\ metadata # NULL
  /\ chunkFiles # NoFiles
  /\ LET newStart  == Max(0, x0)
         newEnd    == Min(TotalPoints(metadata), x1)
         buffer    == ChunkSize(metadata)
         loadStart == Max(0, newStart - buffer)
         loadEnd   == Min(TotalPoints(metadata), newEnd + buffer)
     IN  LoadChunksForRange(handled + 1,
                            [NoReaderCall EXCEPT !.kind = "relayout",
                                                 !.files = chunkFiles,
                                                 !.meta = metadata,
                                                 !.loaded = captured,
                                                 !.start = loadStart,
                                                 !.end = loadEnd,
                                                 !.range = <<newStart, newEnd>>])
  /\ UNCHANGED <<storeVars, metadata, loading, loadingStatus, ingestVars, mergedData,
                 chunkFiles, captured, lastCall, sessionVars>>

NextReader ==
  \/ \E u \in Uploads : SelectFiles(u)
  \/ \E h \in Handlers : OnLoadMetadata(h)
  \/ \E h \in Handlers, k \in ChunkIds : ChunkLoaded(h, k)
  \/ \E h \in Handlers : LoadTimer(h)
  \/ \E x0 \in RangeInputs, w \in 1..MaxSpan : HandleRelayout(x0, x0 + w)

SpecReader == Init /\ [][NextReader]_vars

\* lines 933-937: what the plot shows
readRange == getDataForRange(metadata, loadedChunks, viewRange[1], viewRange[2])

----------------------------------------------------------------------------
(* SpecInit: interface calls of a session that finds persisted content, each
   followed through its implicit init (src/src/utils/indexedDB.ts:37-118) *)

\* what an earlier session left in the object stores
Persisted ==
  { [metadata |-> EmptyStore, chunks |-> {}],
    [metadata |-> saveMetadataHash(saveMetadata(EmptyStore, "A"), calculateFileHash("A")),
     chunks   |-> saveChunk(saveChunk({}, 0, ChunkData("A", 0)), 1, ChunkData("A", 1))] }

\* the page is loaded again: no connection yet, the object stores as they were
InitSession ==
  /\ db = NULL
  /\ \E s \in Persisted : dbMetadata = s.metadata /\ dbChunks = s.chunks
  /\ metadata = NULL
  /\ loadedChunks = EmptyMap
  /\ loading = FALSE
  /\ progress = 0
  /\ error = NoError
  /\ loadingStatus = ""
  /\ pc = [p \in Ingests |-> "idle"]
  /\ files = [p \in Ingests |-> NoFiles]
  /\ meta = [p \in Ingests |-> NULL]
  /\ metadataHash = [p \in Ingests |-> NULL]
  /\ cachedMetadata = [p \in Ingests |-> NULL]
  /\ cachedHash = [p \in Ingests |-> NULL]
  /\ idx = [p \in Ingests |-> 0]
  /\ task = [p \in Ingests |-> NoTasks]
  /\ allChunks = [p \in Ingests |-> EmptyMap]
  /\ path = [p \in Ingests |-> "none"]
  /\ did = [p \in Ingests |-> {}]
  /\ transactions = << >>
  /\ viewRange = <<0, 10000>>
  /\ mergedData = NoData
  /\ chunkFiles = NoFiles
  /\ loadingChunks = FALSE
  /\ captured = EmptyMap
  /\ call = NoReaderCalls
  /\ fetch = NoFetches
  /\ lastLoad = NoLoad
  /\ handled = 0
  /\ lastCall = NoCall
  /\ available \in BOOLEAN
  /\ storeCalls = NoStoreCalls

ReadOps == {"getMetadata", "getMetadataHash", "getChunk", "hasChunk",
            "getCachedChunksCount"}

StoreOps == {"init"} \cup ReadOps \cup WriteOps

\* the calls of the session: saveMetadata("B"), saveMetadataHash(hash of B),
\* saveChunk(0, chunk 0 of B), getChunk(0), hasChunk(0)
OpMetadata(op, store) ==
  CASE op = "clearAll"         -> clearAllMetadata(store)
    [] op = "saveMetadata"     -> saveMetadata(store, "B")
    [] op = "saveMetadataHash" -> saveMetadataHash(store, calculateFileHash("B"))
    [] OTHER                   -> store

OpChunks(op, chunks) ==
  CASE op = "clearAll"  -> clearAllChunks(chunks)
    [] op = "saveChunk" -> saveChunk(chunks, 0, ChunkData("B", 0))
    [] OTHER            -> chunks

OpValue(op, store, chunks) ==
  CASE op = "getMetadata"          -> getMetadata(store)
    [] op = "getMetadataHash"      -> getMetadataHash(store)
    [] op = "getChunk"             -> getChunk(chunks, 0)
    [] op = "hasChunk"             -> hasChunk(chunks, 0)
    [] op = "getCachedChunksCount" -> getCachedChunksCount(chunks)
    [] OTHER                       -> NULL

SessionUntouched == <<uiVars, ingestVars, readerVars, lastCall, available>>

\* an operation is called: it runs up to its first await
Invoke(c, op) ==
  /\ storeCalls[c].stage = "none"
  /\ LET init == op = "init" \/ NeedsInit(db)
     IN  storeCalls' = [storeCalls EXCEPT ![c] =
           [op |-> op, stage |-> IF init THEN "openDB" ELSE "request",
            init |-> init, value |-> NULL]]
  /\ UNCHANGED <<storeVars, SessionUntouched>>

\* lines 37-52: openDB of this call's init settles
Opened(c) ==
  /\ storeCalls[c].stage = "openDB"
  /\ IF available
       THEN /\ db' = "open"
            /\ dbMetadata' = upgrade(dbMetadata, EmptyStore)
            /\ dbChunks' = upgrade(dbChunks, {})
            /\ storeCalls' = [storeCalls EXCEPT ![c].stage =
                 IF storeCalls[c].op = "init" THEN "done" ELSE "request"]
       ELSE /\ storeCalls' = [storeCalls EXCEPT ![c].stage = "failed"]
            /\ UNCHANGED storeVars
  /\ UNCHANGED SessionUntouched

\* the request on this.db! settles; with this.db null the call throws
Request(c) ==
  /\ storeCalls[c].stage = "request"
  /\ IF db = NULL
       THEN /\ storeCalls' = [storeCalls EXCEPT ![c].stage = "failed"]
            /\ UNCHANGED <<dbMetadata, dbChunks>>
       ELSE /\ dbMetadata' = OpMetadata(storeCalls[c].op, dbMetadata)
            /\ dbChunks' = OpChunks(storeCalls[c].op, dbChunks)
            /\ storeCalls' = [storeCalls EXCEPT
                 ![c].stage = "done",
                 ![c].value = OpValue(storeCalls[c].op, dbMetadata, dbChunks)]
  /\ UNCHANGED <<db, SessionUntouched>>

NextInit ==
  \/ \E c \in StoreCallers, op \in StoreOps : Invoke(c, op)
  \/ \E c \in StoreCallers : Opened(c)
  \/ \E c \in StoreCallers : Request(c)

SpecInit == InitSession /\ [][NextInit]_vars

----------------------------------------------------------------------------
(* SpecOverlap: the first viewer over incomplete and small uploads, among them
   the upload whose second batch fails (src/src/App.tsx:452-456, 196-225) *)

OverlapUploads ==
  { Upload("A", {BATCH_SIZE}, {}),
    Upload("B", {}, {}),
    Upload("B", {0}, {}),
    Upload("Z", {}, {}) }

NextOverlap ==
  \/ \E p \in Selections, u \in OverlapUploads :
       LargeBefore(p, u) < MaxLarge /\ Start(p, u)
  \/ IngestSteps

SpecOverlap == Init /\ [][NextOverlap]_vars

----------------------------------------------------------------------------
(* SpecRepeat: the first viewer when one two-chunk dataset, whole or without
   its first chunk file, and an empty dataset are selected MaxIngests times
   (src/src/App.tsx:452-456) *)

RepeatUploads ==
  { Upload("B", {}, {}),
    Upload("B", {0}, {}),
    Upload("Z", {}, {}) }

NextRepeat ==
  \/ \E p \in Ingests, u \in RepeatUploads : Start(p, u)
  \/ IngestSteps

SpecRepeat == Init /\ [][NextRepeat]_vars

----------------------------------------------------------------------------
(* SpecStorage: the first viewer and direct calls of the interface, on storage
   that openDB may be unable to open (src/src/App.tsx:107-112, 150-156) *)

\* A fresh origin whose storage may or may not be available
InitStorage ==
  /\ db = NULL
  /\ dbMetadata = EmptyStore
  /\ dbChunks = {}
  /\ metadata = NULL
  /\ loadedChunks = EmptyMap
  /\ loading = FALSE
  /\ progress = 0
  /\ error = NoError
  /\ loadingStatus = ""
  /\ pc = [p \in Ingests |-> "idle"]
  /\ files = [p \in Ingests |-> NoFiles]
  /\ meta = [p \in Ingests |-> NULL]
  /\ metadataHash = [p \in Ingests |-> NULL]
  /\ cachedMetadata = [p \in Ingests |-> NULL]
  /\ cachedHash = [p \in Ingests |-> NULL]
  /\ idx = [p \in Ingests |-> 0]
  /\ task = [p \in Ingests |-> NoTasks]
  /\ allChunks = [p \in Ingests |-> EmptyMap]
  /\ path = [p \in Ingests |-> "none"]
  /\ did = [p \in Ingests |-> {}]
  /\ transactions = << >>
  /\ viewRange = <<0, 10000>>
  /\ mergedData = NoData
  /\ chunkFiles = NoFiles
  /\ loadingChunks = FALSE
  /\ captured = EmptyMap
  /\ call = NoReaderCalls
  /\ fetch = NoFetches
  /\ lastLoad = NoLoad
  /\ handled = 0
  /\ lastCall = NoCall
  /\ available \in BOOLEAN
  /\ storeCalls = NoStoreCalls

\* the component and direct calls of the interface
StorageUploads == IngestUploads \ {Upload("A", {}, {})}

NextStorage ==
  \/ \E p \in Selections, u \in StorageUploads : Start(p, u)
  \/ IngestSteps
  \/ \E op \in StoreOps : CallFails(op)

SpecStorage == InitStorage /\ [][NextStorage]_vars

----------------------------------------------------------------------------
(* Claims *)

AllResident == \A k \in ChunkIds : k < ChunksLength(metadata) => k \in DOMAIN loadedChunks

Rendered == mergedData # NoData

Latest(p) == \A q \in Ingests : q > p => pc[q] = "idle"

Completed(p) == pc[p] \in {"timer", "done"}

\* C2 (Spec): when the latest ingest has completed without error and its dataset
\* has a chunk, chunk 0 of that dataset is resident.
C2_FirstChunkResident ==
  \A p \in Ingests :
    (Completed(p) /\ Latest(p) /\ ChunksLength(files[p].metadataFile) >= 1)
    => /\ 0 \in DOMAIN loadedChunks
       /\ loadedChunks[0] = ChunkData(files[p].metadataFile, 0)

StepOf(p) == pc'[p] # pc[p] \/ idx'[p] # idx[p]

\* C3 (Spec): an ingest takes the cache-hit branch exactly when a descriptor is
\* stored and the stored hash is the hash of the uploaded metadata file; no step
\* of an ingest on that branch reads a chunk file or issues a write; and the
\* persisted state stays what it was for as long as that ingest runs, so that
\* it is the same after the ingest as before.
C3_CacheHitFrame ==
  [][\A p \in Ingests :
       /\ (path[p] = "none" /\ path'[p] # "none")
          => (path'[p] = "hit"
                <=> /\ getMetadata(dbMetadata) # NULL
                    /\ getMetadataHash(dbMetadata) = calculateFileHash(files[p].metadataFile))
       /\ (path'[p] = "hit" /\ StepOf(p))
          => /\ did'[p] = {}
             /\ task'[p] = NoTasks
       /\ (path[p] = "hit" /\ pc[p] = "hitGetChunk")
          => /\ dbMetadata' = dbMetadata
             /\ dbChunks' = dbChunks]_vars

\* C4 (SpecRepeat): once a dataset has been ingested and a later ingest of a dataset
\* with another hash has completed through clearAll, the store holds no chunk of
\* the earlier dataset.
C4_Invalidation ==
  \A p \in Ingests, q \in Ingests :
    (q < p /\ pc[q] = "done" /\ pc[p] = "done" /\ path[p] = "miss" /\ Latest(p)
       /\ meta[q] # meta[p])
    => \A r \in dbChunks : r.data.ds # meta[q]

\* C5 (Spec): once an ingest has failed, it starts no further chunk task and
\* none of its chunk writes reaches the store.
C5_AbortOnFailure ==
  [][\A p \in Ingests : pc[p] = "failed" =>
       \A k \in ChunkIds :
         /\ task[p][k] = "none" => task'[p][k] = "none"
         /\ task[p][k] = "writing" => task'[p][k] = "writing"]_vars

BatchOf(k) == k \div BATCH_SIZE

\* C6 (Spec): the chunk reads and writes in flight for one ingest are at most 5
\* and belong to one batch; every chunk of an earlier batch has been written and
\* no chunk of a later batch has been started.
C6_BatchOrdering ==
  \A p \in Ingests :
    /\ Cardinality(InFlight(p)) <= BATCH_SIZE
    /\ \A k \in InFlight(p), j \in ChunkIds :
         /\ BatchOf(j) < BatchOf(k) => task[p][j] = "done"
         /\ BatchOf(j) > BatchOf(k) => task[p][j] = "none"

\* C6 witness: a chunk of the second batch is being written
C6_Witness ==
  \E p \in Ingests : task[p][BATCH_SIZE] = "writing"

\* C7 (Spec): while no ingest starts, the progress value never decreases; it
\* stays within 0..100; it is 100 when an ingest completes.
C7_ProgressMonotone ==
  [][/\ (\A p \in Ingests : pc[p] = "idle" <=> pc'[p] = "idle") => progress' >= progress
     /\ progress' \in 0..100
     /\ \A p \in Ingests : (~Completed(p) /\ Completed(p)') => progress' = 100]_vars

\* C8 (SpecStore): right after saveChunk(id, data), getChunk(id) is data,
\* hasChunk(id) is true, and the count is one more when id was absent.
C8_RoundTrip ==
  lastCall.op = "saveChunk" =>
    /\ getChunk(dbChunks, lastCall.chunkId) = lastCall.data
    /\ hasChunk(dbChunks, lastCall.chunkId)
    /\ ~lastCall.hadChunk => getCachedChunksCount(dbChunks) = lastCall.countBefore + 1

\* C8 witness: a chunk saved under an id that was absent, beside other chunks
C8_Witness ==
  lastCall.op = "saveChunk" /\ ~lastCall.hadChunk /\ lastCall.countBefore >= 1

Removed ==
  \/ \E k \in DOMAIN dbMetadata : k \notin DOMAIN dbMetadata'
  \/ \E r \in dbChunks : ~hasChunk(dbChunks', r.chunkId)

\* C9 (SpecStore): after clearAll both metadata slots are absent and the count is
\* 0; a step that removes any entry leaves both stores empty.
C9_ClearAllAtomic ==
  [][/\ lastCall'.op = "clearAll" =>
          /\ getMetadata(dbMetadata') = NULL
          /\ getMetadataHash(dbMetadata') = NULL
          /\ getCachedChunksCount(dbChunks') = 0
     /\ Removed => (dbMetadata' = EmptyStore /\ dbChunks' = {})]_vars

\* C9 witness: clearAll was called on a store holding both slots and chunks
C9_Witness ==
  /\ lastCall.op = "clearAll" /\ lastCall.countBefore >= 2
  /\ lastCall.slotsBefore = {"current", "hash"}
  /\ dbMetadata = EmptyStore /\ dbChunks = {}

MissWrites == {"clearAll", "saveMetadata", "saveMetadataHash"}

\* C10 (Spec): an ingest issues clearAll first, saveMetadata after it,
\* saveMetadataHash after both, and reads or writes a chunk only on the
\* cache-miss branch after all three: when one of its chunks is written, its
\* clearAll, its saveMetadata and its saveMetadataHash have been done.
C10_MissOrdering ==
  [][\A p \in Ingests :
       /\ (did[p] = {} /\ did'[p] # {}) => did'[p] = {"clearAll"}
       /\ ("saveMetadata" \in did'[p] \ did[p]) => did[p] = {"clearAll"}
       /\ ("saveMetadataHash" \in did'[p] \ did[p]) => did[p] = {"clearAll", "saveMetadata"}
       /\ (did'[p] \ MissWrites # {}) => (path[p] = "miss" /\ MissWrites \subseteq did'[p])
       /\ \A k \in ChunkIds :
            (task[p][k] = "writing" /\ task'[p][k] = "done")
            => (path[p] = "miss" /\ MissWrites \subseteq did[p])]_vars

\* C10 witness: a chunk has been written after the three writes of the miss
\* branch, and the store holds the ingest's descriptor, its hash and the chunk
C10_Witness ==
  \E p \in Ingests :
    /\ path[p] = "miss" /\ MissWrites \subseteq did[p]
    /\ \E k \in ChunkIds : task[p][k] = "done" /\ getChunk(dbChunks, k) = ChunkData(meta[p], k)
    /\ getMetadata(dbMetadata) = meta[p]
    /\ getMetadataHash(dbMetadata) = metadataHash[p]

\* C11 (SpecOverlap): when an ingest fails because a chunk matches no uploaded file, the
\* error names a chunk of that ingest whose file is missing; the ingest had
\* stored its descriptor and its hash; the failing step removes no slot and no
\* chunk, and no later step of the failed ingest removes anything from the
\* stores: nothing is rolled back.
C11_MissingChunkFile ==
  [][\A p \in Ingests :
       /\ (pc[p] # "failed" /\ pc'[p] = "failed" /\ error'.kind = "MissingChunkFile")
          => /\ error'.chunk \in ChunkIds
             /\ error'.chunk < ChunksLength(meta[p])
             /\ FindFile(files[p], error'.chunk) = "missing"
             /\ {"saveMetadata", "saveMetadataHash"} \subseteq did'[p]
             /\ DOMAIN dbMetadata \subseteq DOMAIN dbMetadata'
             /\ \A r \in dbChunks : hasChunk(dbChunks', r.chunkId)
       /\ (pc[p] = "failed" /\ task'[p] # task[p] /\ files'[p] = files[p])
          => /\ \A r \in dbChunks : hasChunk(dbChunks', r.chunkId)
             /\ dbMetadata' = dbMetadata]_vars

\* C11 witness: an ingest failed on a missing chunk file after it had written the
\* chunks of its first batch, which are in the store with its descriptor and hash
C11_Witness ==
  \E p \in Ingests :
    /\ pc[p] = "failed" /\ Latest(p) /\ error = MissingChunkFile(BATCH_SIZE)
    /\ \A k \in 0..(BATCH_SIZE - 1) :
         task[p][k] = "done" /\ getChunk(dbChunks, k) = ChunkData(meta[p], k)
    /\ getMetadata(dbMetadata) = meta[p]
    /\ getMetadataHash(dbMetadata) = metadataHash[p]

\* C12 (Spec): an ingest given no metadata file surfaces the missing-metadata
\* error in its first step and stops there: that step changes neither store, and
\* the ingest never reads a chunk file or issues a store operation.
C12_MissingMetadataFile ==
  [][\A p \in Ingests :
       /\ (pc[p] = "idle" /\ pc'[p] # "idle" /\ files'[p].metadataFile = NULL)
          => /\ pc'[p] = "failed"
             /\ error' = MissingMetadataFile
             /\ error' # NoError
             /\ ~loading'
             /\ dbMetadata' = dbMetadata
             /\ dbChunks' = dbChunks
       /\ (pc[p] # "idle" /\ files[p].metadataFile = NULL /\ files'[p] = files[p])
          => /\ did'[p] = {}
             /\ task'[p] = NoTasks
             /\ pc'[p] \in {"failed", "returned"}]_vars

\* C12 witness: an ingest without a metadata file has failed over a store that
\* holds an earlier dataset
C12_Witness ==
  \E p \in Ingests :
    /\ pc[p] = "failed" /\ files[p].metadataFile = NULL /\ Latest(p)
    /\ error = MissingMetadataFile
    /\ getMetadata(dbMetadata) # NULL /\ getMetadataHash(dbMetadata) # NULL
    /\ dbChunks # {}

\* C13 (SpecOverlap): the step in which an ingest fails leaves an error shown,
\* the loading flag false, the status text empty and the progress value at 0.
C13_ErrorResets ==
  [][\A p \in Ingests :
       (pc[p] # "failed" /\ pc'[p] = "failed")
       => /\ error' # NoError
          /\ ~loading'
          /\ loadingStatus' = ""
          /\ progress' = 0]_vars

\* C14 (SpecRepeat): when an ingest has completed without error and the next ingest,
\* of the same metadata file, has completed on the cache-hit branch, the chunk
\* set the second made resident is the chunk set the first made resident.
C14_IdempotentHit ==
  \A p \in Ingests, q \in Ingests :
    (p = q + 1 /\ pc[q] = "done" /\ pc[p] = "done" /\ path[p] = "hit"
       /\ files[p].metadataFile = files[q].metadataFile)
    => allChunks[p] = allChunks[q]

\* the ids from floor(start / chunkSize) to floor((end - 1) / chunkSize) that are
\* below the chunk count
Touched(start, end, m) ==
  {i \in ChunkIds : /\ start \div ChunkSize(m) <= i
                    /\ i <= (end - 1) \div ChunkSize(m)
                    /\ i < ChunksLength(m)}

\* C15 (SpecReader): the chunks a range read fetches are the chunks from
\* floor(start / chunkSize) to floor((end - 1) / chunkSize), below the chunk
\* count: none outside them, and each of them that was not resident; reading
\* [0, chunkSize) fetches only chunk 0.
C15_ChunksTouched ==
  lastLoad.outcome # "none"
  => LET touched == Touched(lastLoad.start, lastLoad.end, lastLoad.meta)
     IN  /\ lastLoad.chunksToLoad \subseteq touched
         /\ touched \ lastLoad.before \subseteq lastLoad.chunksToLoad

\* the indices start..end-1 whose chunk is resident, ascending
AvailableIndices(start, end) ==
  LET InResident(g) == (g \div ChunkSize(metadata)) \in DOMAIN loadedChunks
  IN  SelectSeq([i \in 1..(end - start) |-> start + i - 1], InResident)

Visited(start, end) ==
  {i \in DOMAIN loadedChunks : /\ start \div ChunkSize(metadata) <= i
                               /\ i <= end \div ChunkSize(metadata)}

Fetchable ==
  {k \in Touched(viewRange[1], viewRange[2], metadata) :
     /\ k < ChunksLength(metadata)
     /\ GetFile(chunkFiles, k) = "found"
     /\ k \notin chunkFiles.malformed}

\* C18 (SpecReader): once a range read has settled and no handler is running,
\* every chunk of the view range that is resident or can be fetched from the
\* selected files is resident, so that its slice is part of what is shown.
C18_FetchAndPromote ==
  ((\A h \in Handlers : call[h].kind = "none")
     /\ lastLoad.outcome # "none" /\ lastLoad.meta = metadata)
  => Fetchable \subseteq DOMAIN loadedChunks

\* no ingest is running and no chunk task of any ingest is outstanding
NoIngestInFlight ==
  \A p \in Ingests : /\ pc[p] \in {"idle", "done", "failed", "returned"}
                     /\ InFlight(p) = {}

\* C19 (SpecOverlap): when no ingest is in flight, every chunk of the resident tier is
\* the chunk the store holds under the same id.
C19_ResidentNotAuthoritative ==
  NoIngestInFlight
  => \A k \in DOMAIN loadedChunks : getChunk(dbChunks, k) = loadedChunks[k]

\* the ids in ascending order
IdOrder(ids) == [i \in 1..Cardinality(ids) |-> CHOOSE k \in ids : Rank(k, ids) = i]

\* C20 (SpecReader): when the concurrent reads of a range request have all
\* completed, in whatever order and whatever other handler calls are waiting
\* for, every chunk fetched is resident under its own id with the data of its
\* own file, what the plot shows is what it shows when the reads complete in id
\* order, and, when the resident chunks are those just fetched and the
\* descriptor is the one of the request, it lists the points of the view range
\* in ascending index order.
C20_OrderIndependent ==
  lastLoad.outcome = "loaded"
  => LET ids == lastLoad.chunksToLoad
     IN  /\ \A k \in ids : /\ k \in DOMAIN loadedChunks
                           /\ loadedChunks[k] = ParseChunk(lastLoad.files, k)
         /\ readRange = getDataForRange(metadata,
                                        Promote(loadedChunks, lastLoad.files, ids, IdOrder(ids)),
                                        viewRange[1], viewRange[2])
         /\ (DOMAIN loadedChunks \subseteq ids /\ lastLoad.meta = metadata)
            => \A s \in SeriesOf(metadata) :
                 LET avail == AvailableIndices(viewRange[1], viewRange[2])
                 IN  readRange[s] = [i \in 1..Len(avail) |-> Value(metadata, s, avail[i])]

\* C20 witness: three reads completed in descending id order and the view range
\* spans two of the chunks fetched
C20_Witness ==
  /\ lastLoad.outcome = "loaded"
  /\ lastLoad.arrival = <<2, 1, 0>>
  /\ viewRange = <<ChunkLen - 1, ChunkLen + 1>>
  /\ Len(readRange[AvgMaSpread]) = 2

Slots == {"current", "hash"}

\* C21 (SpecStore): saveMetadata changes only the slot "current",
\* saveMetadataHash only the slot "hash", and saveChunk(id, data) only the chunk
\* entry of id; each leaves the value it was given in its own place, so calls of
\* saveChunk for different ids, in any order, leave each id with its own data
\* and both metadata slots as they were.
C21_SeparateSlots ==
  [][/\ lastCall'.op = "saveMetadata"
          => /\ getMetadata(dbMetadata') = lastCall'.value
             /\ getMetadataHash(dbMetadata') = getMetadataHash(dbMetadata)
             /\ DOMAIN dbMetadata' = DOMAIN dbMetadata \cup {"current"}
             /\ dbChunks' = dbChunks
     /\ lastCall'.op = "saveMetadataHash"
          => /\ getMetadataHash(dbMetadata') = lastCall'.value
             /\ getMetadata(dbMetadata') = getMetadata(dbMetadata)
             /\ DOMAIN dbMetadata' = DOMAIN dbMetadata \cup {"hash"}
             /\ dbChunks' = dbChunks
     /\ lastCall'.op = "saveChunk"
          => /\ getChunk(dbChunks', lastCall'.chunkId) = lastCall'.data
             /\ \A j \in StoreIds \ {lastCall'.chunkId} :
                  /\ getChunk(dbChunks', j) = getChunk(dbChunks, j)
                  /\ hasChunk(dbChunks', j) = hasChunk(dbChunks, j)
             /\ dbMetadata' = dbMetadata]_vars

\* C21 witness: with both slots filled, chunk 1 was saved beside chunk 0 that
\* holds other data, and chunk 0 and both slots are as they were
C21_Witness ==
  /\ lastCall.op = "saveChunk" /\ lastCall.chunkId = 1
  /\ lastCall.slotsBefore = Slots /\ DOMAIN dbMetadata = Slots
  /\ getMetadata(dbMetadata) = "A" /\ getMetadataHash(dbMetadata) = calculateFileHash("A")
  /\ getChunk(dbChunks, 0) = ChunkData("A", 0)
  /\ getChunk(dbChunks, 1) = ChunkData("B", 0)

\* C22 (SpecStore): saveChunk(id, d2) on an id that holds a chunk leaves
\* getChunk(id) = d2 and the count as it was, and the store never holds two
\* entries with one chunk id.
C22_Upsert ==
  /\ (lastCall.op = "saveChunk" /\ lastCall.hadChunk)
       => /\ getChunk(dbChunks, lastCall.chunkId) = lastCall.data
          /\ getCachedChunksCount(dbChunks) = lastCall.countBefore
  /\ \A r1 \in dbChunks, r2 \in dbChunks : r1.chunkId = r2.chunkId => r1 = r2

\* C22 witness: saveChunk on an id that held other data, beside another chunk
C22_Witness ==
  /\ lastCall.op = "saveChunk" /\ lastCall.hadChunk
  /\ lastCall.dataBefore # lastCall.data
  /\ lastCall.countBefore >= 2

\* no call of the session so far is a write
OnlyReads == \A c \in StoreCallers : storeCalls[c].op \notin WriteOps

\* C23 (SpecInit): a step in which an init finishes, whether it was called or
\* triggered by another operation and whatever other inits are under way,
\* leaves the persisted metadata, hash and chunks as they were; with storage
\* available no call fails; and while the session has only read, every
\* completed read holds what the operation gives on the persisted content.
C23_InitIdempotent ==
  [][/\ (\E c \in StoreCallers : storeCalls[c].stage = "openDB"
                                 /\ storeCalls'[c].stage # "openDB")
          => (dbMetadata' = dbMetadata /\ dbChunks' = dbChunks)
     /\ available' => \A c \in StoreCallers : storeCalls'[c].stage # "failed"
     /\ OnlyReads'
          => \A c \in StoreCallers :
               (storeCalls'[c].stage = "done" /\ storeCalls'[c].op \in ReadOps)
               => storeCalls'[c].value = OpValue(storeCalls'[c].op, dbMetadata', dbChunks')]_vars

\* C23 witness: two reads were called before any init had finished, each ran its
\* own init, and both completed with the persisted values
C23_Witness ==
  /\ storeCalls[1].op = "getMetadata" /\ storeCalls[2].op = "getCachedChunksCount"
  /\ \A c \in {1, 2} : storeCalls[c].stage = "done" /\ storeCalls[c].init
  /\ storeCalls[1].value = "A"
  /\ storeCalls[2].value = 2
  /\ getMetadataHash(dbMetadata) = calculateFileHash("A")

\* the awaits of loadAllData that come before its first store operation settles
BeforeStore == {"idle", "readMetadata", "calculateFileHash", "getMetadataInit",
                "failed", "returned"}

\* C24 (SpecStorage): when openDB cannot open the database, every call of the
\* interface is rejected, the mount effect's init leaves the initialization
\* error shown, and no ingest gets past its first store operation: nothing is
\* written to the object stores, no chunk becomes resident, and the step in
\* which an ingest fails leaves loading false and an error set.
C24_StorageUnavailable ==
  [][~available =>
       /\ db' = NULL /\ dbMetadata' = dbMetadata /\ dbChunks' = dbChunks
       /\ loadedChunks' = EmptyMap /\ metadata' = NULL
       /\ lastCall' # lastCall => lastCall'.value = Rejected
       /\ storeCalls' # storeCalls
            => (storeCalls'[1].stage = "failed" /\ error' = InitError)
       /\ \A p \in Ingests :
            /\ pc'[p] \in BeforeStore
            /\ pc[p] = "getMetadataInit" => pc'[p] \in {"getMetadataInit", "failed"}
            /\ (pc[p] # "failed" /\ pc'[p] = "failed")
                 => (~loading' /\ error' # NoError)]_vars

\* C24 witness: on unavailable storage the mount effect's init was rejected, a
\* direct call was rejected, and an ingest with a metadata file failed at
\* getMetadata with nothing written and nothing resident
C24_Witness ==
  /\ ~available
  /\ storeCalls[1].stage = "failed"
  /\ lastCall.op = "saveChunk" /\ lastCall.value = Rejected
  /\ pc[1] = "failed" /\ files[1].metadataFile = "B" /\ error = DatabaseError
  /\ ~loading /\ dbChunks = {} /\ dbMetadata = EmptyStore /\ loadedChunks = EmptyMap

\* C25 (Spec): while an ingest is on the cache-hit path and has not finished,
\* the store holds a chunk for every chunk id of the stored descriptor, and as
\* many chunks as the descriptor lists.
C25_CacheComplete ==
  \A p \in Ingests :
    (path[p] = "hit" /\ pc[p] = "hitGetChunk")
    => /\ \A k \in ChunkIds :
            k < ChunksLength(getMetadata(dbMetadata)) => hasChunk(dbChunks, k)
       /\ getCachedChunksCount(dbChunks) = ChunksLength(getMetadata(dbMetadata))

\* C26 (SpecOverlap): whenever loading is false, every chunk of the resident tier is a
\* chunk of the dataset of the descriptor held in memory, under its own id.
C26_DescriptorAgrees ==
  ~loading
  => \A k \in DOMAIN loadedChunks :
       metadata # NULL /\ loadedChunks[k] = ChunkData(metadata, k)

\* C27 (SpecOverlap): when no ingest is in flight and both metadata slots are
\* filled, the stored hash is the hash of the file the stored descriptor was
\* parsed from, however the clearAll, saveMetadata and saveMetadataHash steps
\* of ingests started without waiting for each other are interleaved.
C27_HashMatchesDescriptor ==
  (NoIngestInFlight /\ Slots \subseteq DOMAIN dbMetadata)
  => getMetadataHash(dbMetadata) = calculateFileHash(getMetadata(dbMetadata))

\* C27 witness: two ingests of different datasets have both stored their
\* descriptor and hash and completed, and the one started first stored its
\* descriptor last, so the second ran its store steps while the first was under
\* way
C27_Witness ==
  /\ NoIngestInFlight
  /\ \A p \in {1, 2} : pc[p] = "done" /\ path[p] = "miss"
  /\ files[1].metadataFile # files[2].metadataFile
  /\ Slots \subseteq DOMAIN dbMetadata
  /\ getMetadata(dbMetadata) = files[1].metadataFile
  /\ getMetadataHash(dbMetadata) = metadataHash[1]

\* two ingests of different datasets have both completed without error and
\* nothing is in flight
BothCompleted ==
  /\ NoIngestInFlight
  /\ \A p \in {1, 2} : pc[p] = "done"
  /\ files[1].metadataFile # files[2].metadataFile

\* C28 (SpecOverlap): once two ingests of different datasets, started at any
\* moment, have both completed, every chunk in the store is a chunk of the
\* dataset whose descriptor is stored.
C28_NoMixedStore ==
  BothCompleted
  => \A r \in dbChunks :
       /\ getMetadata(dbMetadata) # NULL
       /\ r.data = ChunkData(getMetadata(dbMetadata), r.chunkId)

\* an ingest is between its start and its completion or failure
Running(p) == pc[p] \notin {"idle", "done", "failed", "returned", "timer"}

\* C29 (SpecOverlap): loading is true in every state in which an ingest has
\* started and has neither completed nor failed.
C29_LoadingTracksIngest ==
  (\E p \in Ingests : Running(p)) => loading

\* C30 (SpecReader): a range request reads no chunk file of a chunk that was
\* resident when the request was made.
C30_NoDuplicateFetch ==
  lastLoad.outcome # "none" => lastLoad.chunksToLoad \cap lastLoad.before = {}

====
